---- MODULE Spec2Model ----
(***************************************************************************)
(* A model of the React bindings of sleekcms-react (src/src/index.tsx).    *)
(*                                                                         *)
(* One component instance hosts one data hook.  The file holds two         *)
(* generations of the hook layer, both modelled:                           *)
(*   - useFetch (lines 32-52) behind useContent .. useEntry, with          *)
(*     useClient (lines 20-30) resolving the client;                       *)
(*   - useAsyncQuery (lines 186-220) behind the useCms* hooks, with        *)
(*     useSleekClientFromContext (lines 176-184).                          *)
(*                                                                         *)
(* These specifications share the variables:                               *)
(*   - Spec: one hook instance of either layer below a Provider that has   *)
(*     already published its client (or below none); FairSpec adds React's *)
(*     scheduling and a client whose calls all settle;                     *)
(*   - SpecTyped: one of the typed hooks useContent .. useEntry;           *)
(*   - SpecProvider (FairProvider with React's scheduling): the            *)
(*     SleekCMSProvider of either generation (lines 54-57, 126-174), its   *)
(*     subtree left out.                                                   *)
(*                                                                         *)
(* React is modelled by what the hooks rely on: a render runs the whole    *)
(* hook body against the current state cells and returns a snapshot        *)
(* (view); useMemo/useCallback/useEffect compare their dependency arrays   *)
(* with Object.is; passive effects run after the commit and before the     *)
(* next render; state setters called in one synchronous stretch are        *)
(* batched; a setter called for an instance that is gone changes nothing.  *)
(***************************************************************************)
EXTENDS Integers, Sequences, FiniteSets, TLC

VARIABLES
    hook,              \* the exported hook the component calls
    contextClient,     \* useContext(Context): the Provider's client, or NoClient
    phase,             \* "init" | "mounted" | "crashed" | "unmounted"
    query,             \* the hook's input at the last render (path/name/handle/query)
    options,           \* the per-call ClientOptions at the last render
    enabled,           \* options.enabled of a useCms* hook at the last render
    standaloneClient,  \* useMemo cell of useClient
    madeFrom,          \* the options the memoized standalone client was built from
    built,             \* number of clients constructed so far (createAsyncClient)
    deps,              \* dependency array of the refetch useCallback
    refetch,           \* what the current refetch closure captured
    effect,            \* the scheduled useEffect run: "none" | "mount" | "deps"
    data,              \* useState cell
    error,             \* useState cell
    loading,           \* useState cell of useFetch
    status,            \* useState cell of useAsyncQuery
    view,              \* the loading flag and status the last render returned
    calls,             \* the client calls in flight, in the order they were made
    lastSettled,       \* the refetch() that completed last and how it ended
    provider,          \* the SleekCMSProvider above: "none" | "v1" | "v2"
    props,             \* the Provider's props at its last render
    syncClient,        \* useState cell of the Provider
    isInitializing,    \* useState cell of the Provider
    value,             \* useMemo cell of the Provider (useState cell in v1)
    valueDeps,         \* dependency array of the value useMemo
    pEffect,           \* the Provider's useEffect is scheduled
    prefetches,        \* createSyncClient calls in flight: their configurations
    output,            \* what the Provider's last render returned:
                       \* "none" | "null" | "children" | "threw"
    made,              \* the clients constructed for the Provider, by id
    reconfigs,         \* number of Provider renders with changed props
    lastPrefetch       \* the createSyncClient call that settled last, and how

\* The cells of the hook instance and of the Provider.
hookVars == <<hook, phase, query, options, enabled, standaloneClient, madeFrom,
              deps, refetch, effect, data, error, loading, status, view, calls,
              lastSettled>>

providerVars == <<provider, props, syncClient, isInitializing, value, valueDeps,
                  pEffect, prefetches, output, made, reconfigs, lastPrefetch>>

vars == <<hook, contextClient, phase, query, options, enabled, standaloneClient,
          madeFrom, built, deps, refetch, effect, data, error, loading, status,
          view, calls, lastSettled, provider, props, syncClient, isInitializing,
          value, valueDeps, pEffect, prefetches, output, made, reconfigs,
          lastPrefetch>>

(***************************************************************************)
(* Bounds of the model: how many client calls may be in flight at once,    *)
(* and how many clients may be constructed in one run.                     *)
(***************************************************************************)
MaxInFlight == 2
MaxClients == 2

\* How many times the Provider's props may change in one run.
MaxReconfig == 2

(***************************************************************************)
(* The values the hooks handle.  The hooks only store them, pass them on   *)
(* and compare them with Object.is, so two of each kind tell a fresh value *)
(* from a stale one.                                                       *)
(***************************************************************************)
\* undefined: no data, no error, no query, no options
Undefined == "undefined"

\* null: no client
NoClient == 0

Inputs == {"/about", "/blog"}
Values == {"v1", "v2"}
Errors == {"e1", "e2"}
Keys   == {"test-token"}
Caches == {Undefined, "localStorage"}

\* The two hook layers of the file: useFetch behind the typed hooks
\* useContent .. useEntry, useAsyncQuery behind the useCms* hooks.
FetchHooks == {"useFetch"}
QueryHooks == {"useAsyncQuery"}
Hooks == FetchHooks \cup QueryHooks

\* The typed accessor hooks over useFetch.
TypedHooks ==
    {"useContent", "usePages", "usePage", "useSlugs", "useImage", "useList",
     "useEntry"}

\* Everything that runs useFetch.
FetchLayer == FetchHooks \cup TypedHooks

IsFetch == hook \in FetchLayer

\* The inputs a hook can be called with.
Args(h) == Inputs

\* ClientOptions: key stands for the non-cache fields (siteToken, env, ...),
\* cache for the cache adapter reference; NoOptions is "no options passed".
NoOptions == [key |-> Undefined, cache |-> Undefined]
GivenOptions == [key : Keys, cache : Caches]
OptionsOf(h) == IF h \in FetchLayer THEN {NoOptions} \cup GivenOptions ELSE {NoOptions}
EnabledOf(h) == IF h \in FetchLayer THEN {TRUE} ELSE BOOLEAN

\* The client operation a hook binds: the arrow function it hands to useFetch,
\* or the body of the fetcher it hands to useAsyncQuery.  The two hook layers
\* themselves take any fetcher.
ClientOpSwapped(h) ==
    CASE h = "useContent" -> "getContent"
      [] h = "usePages"   -> "getPage"
      [] h = "usePage"    -> "getPages"
      [] h = "useSlugs"   -> "getSlugs"
      [] h = "useImage"   -> "getImage"
      [] h = "useList"    -> "getList"
      [] h = "useEntry"   -> "getEntry"
      [] OTHER            -> "fetcher"

ClientOp(h) ==
    CASE h = "useContent" -> "getContent"
      [] h = "usePages"   -> "getPages"
      [] h = "usePage"    -> "getPage"
      [] h = "useSlugs"   -> "getSlugs"
      [] h = "useImage"   -> "getImage"
      [] h = "useList"    -> "getList"
      [] h = "useEntry"   -> "getEntry"
      [] OTHER            -> "fetcher"

(***************************************************************************)
(* The Provider's props and the clients it publishes.                      *)
(***************************************************************************)
\* env stands for the configuration props besides siteToken (env, cache,
\* mock); client is the id of a client passed as the client prop.
Tokens == Keys
Envs == {Undefined, "production"}

\* The configuration a client is created from: { siteToken, env, cache, mock }.
Config(p) == [siteToken |-> p.siteToken, env |-> p.env]
NoConfig == [siteToken |-> Undefined, env |-> Undefined]

\* The client the application built itself, which it may pass as client.
GivenClient == [kind |-> "given", cfg |-> NoConfig]

NoProps == [client |-> NoClient, siteToken |-> Undefined, env |-> Undefined, sync |-> FALSE]

\* v1: ProviderProps extends ClientOptions.  v2: SleekCMSProviderProps extends
\* Partial<ClientOptions> with client? and sync?.
PropsOf(pr) ==
    IF pr = "v1"
    THEN [client : {NoClient}, siteToken : Tokens, env : Envs, sync : {FALSE}]
    ELSE [client : {NoClient, 1}, siteToken : {Undefined} \cup Tokens, env : Envs,
          sync : BOOLEAN]

\* The Provider above a hook, as the hook finds it: none; a Provider that
\* has published its asynchronous client; or, for the useCms* hooks, a
\* Provider in sync mode that has finished initializing.
Above(kind, h) ==
    LET p == [client |-> NoClient, siteToken |-> "test-token", env |-> Undefined,
              sync |-> kind = "sync"]
    IN  IF kind = "none"
        THEN /\ provider = "none" /\ props = NoProps /\ made = <<>>
             /\ syncClient = NoClient /\ value = NoClient /\ valueDeps = <<>>
             /\ output = "none" /\ contextClient = NoClient /\ built = 0
        ELSE /\ provider = IF h \in FetchLayer THEN "v1" ELSE "v2"
             /\ props = p
             /\ made = <<[kind |-> kind, cfg |-> Config(p)]>>
             /\ syncClient = IF kind = "sync" THEN 1 ELSE NoClient
             /\ value = 1
             /\ valueDeps = IF h \in FetchLayer THEN <<>>
                            ELSE <<p, IF kind = "sync" THEN 1 ELSE NoClient, FALSE>>
             /\ output = "children" /\ contextClient = 1 /\ built = 1

AboveOf(h) == IF h \in FetchLayer THEN {"none", "async"} ELSE {"none", "async", "sync"}

\* No createSyncClient call has settled yet.
NoPrefetch == [st |-> "none", cfg |-> NoConfig]

\* No refetch() has completed yet.
NoCall ==
    [st |-> "none", res |-> Undefined, promise |-> "none", op |-> "none"]

NoClosure == [client |-> NoClient, query |-> Undefined, enabled |-> FALSE]

InitOf(hooks) ==
    /\ hook \in hooks
    /\ \E kind \in AboveOf(hook) : Above(kind, hook)
    /\ isInitializing = FALSE
    /\ pEffect = FALSE
    /\ prefetches = <<>>
    /\ reconfigs = 0
    /\ lastPrefetch = NoPrefetch
    /\ phase = "init"
    /\ query = Undefined
    /\ options = NoOptions
    /\ enabled = TRUE
    /\ standaloneClient = NoClient
    /\ madeFrom = NoOptions
    /\ deps = <<>>
    /\ refetch = NoClosure
    /\ effect = "none"
    /\ data = Undefined
    /\ error = Undefined
    /\ loading = FALSE
    /\ status = "idle"
    /\ view = [loading |-> FALSE, status |-> "idle"]
    /\ calls = <<>>
    /\ lastSettled = NoCall

Init == InitOf(Hooks)

(***************************************************************************)
(* The state cells of the hook and the handlers of refetch.                *)
(***************************************************************************)
Cur == [data |-> data, error |-> error, loading |-> loading, status |-> status]

SetState(s) ==
    /\ data' = s.data
    /\ error' = s.error
    /\ loading' = s.loading
    /\ status' = s.status

\* useFetch.refetch: setLoading(true) before the call.
FetchStart == [Cur EXCEPT !.loading = TRUE]

\* useFetch.refetch: setData(await fetcher(client)), then finally.
FetchThen(v) == [Cur EXCEPT !.data = v, !.loading = FALSE]

\* A faulty catch branch that also resets data.
FetchCatchResetsData(e) ==
    [Cur EXCEPT !.error = e, !.loading = FALSE, !.data = Undefined]

\* useFetch.refetch: catch (e) { setError(e) }, then finally.
FetchCatch(e) == [Cur EXCEPT !.error = e, !.loading = FALSE]

\* useAsyncQuery.refetch: setStatus("loading"); setError(undefined).
QueryStart == [Cur EXCEPT !.status = "loading", !.error = Undefined]

\* useAsyncQuery.refetch: setData(result); setStatus("success").
QueryThen(v) == [Cur EXCEPT !.data = v, !.status = "success"]

\* A catch branch that forgets the status.
QueryCatchKeepsStatus(e) == [Cur EXCEPT !.error = e]

\* useAsyncQuery.refetch: catch (err) { setError(err); setStatus("error") }.
QueryCatch(e) == [Cur EXCEPT !.error = e, !.status = "error"]

\* A refetch without the catch: the failure leaves through its promise.
PromiseRethrows == "rejected"

\* How the promise returned by refetch() ends when the client call fails:
\* both refetch bodies catch the failure and return normally.
PromiseOnFailure == "fulfilled"

\* The flags of the object a render returns: loading of useFetch's
\* { data, error, loading, refetch }; isLoading: status === "loading" and
\* status of useAsyncQuery's (loading stands for isLoading there).  data and
\* error are returned as the cells hold them.
Result ==
    [loading |-> IF IsFetch THEN loading ELSE status = "loading",
     status |-> status]

(***************************************************************************)
(* useClient and the dependency arrays.                                    *)
(***************************************************************************)
\* useMemo(..., [options]) recomputes on the first render and whenever the
\* options argument is not the very object of the previous render.  fresh
\* says the caller passed a newly created object.
UseMemoStale(o, fresh) == phase = "init" \/ fresh \/ o # options

\* () => options ? createAsyncClient(options) : null
StandaloneOf(o, fresh) ==
    IF UseMemoStale(o, fresh)
    THEN IF o # NoOptions THEN built + 1 ELSE NoClient
    ELSE standaloneClient

\* The operands swapped: contextClient ?? standaloneClient.
ResolveContextFirst(sc) == IF contextClient # NoClient THEN contextClient ELSE sc

\* const client = standaloneClient ?? contextClient
ResolveClient(sc) == IF sc # NoClient THEN sc ELSE contextClient

\* The check left out: a missing client goes unnoticed in the render.
ClientNeverMissing(c) == FALSE

\* if (!client) throw new Error(...) / if (!ctx) throw new Error(...)
ClientMissing(c) == c = NoClient

\* A setter that would still write the cells of an instance that is gone.
SettersAlwaysApply == phase \in {"mounted", "unmounted"}

\* The setters (setData, setError, setLoading, setStatus) act on a live
\* instance only: the hooks have no guard of their own, React drops an update
\* of a component that has unmounted or never committed.
SettersApply == phase = "mounted"

\* A refetch that ignores the enabled flag.
RefetchNeverSkips == FALSE

\* if (!enabled) return;  at the top of useAsyncQuery's refetch.
RefetchSkips == ~IsFetch /\ ~refetch.enabled

\* A refetch that leaves the loading state alone until the call settles.
RefetchStartSilent == Cur

\* What refetch sets before it awaits the call.
RefetchStart == IF IsFetch THEN FetchStart ELSE QueryStart

\* The input left out of the dependency array: [client] only.
RefetchDepsWithoutInput(c, q, en) == <<c, en>>

\* useCallback deps of refetch: [client, ...deps] in useFetch;
\* [enabled, fetcher] with fetcher's own [client, query] in the useCms* hooks.
RefetchDeps(c, q, en) == <<c, q, en>>

\* The effect without a dependency array: it runs after every render.
UseEffectEveryRender(renew) == TRUE

\* useEffect(..., [refetch]) / useEffect(..., [enabled, refetch]) runs after
\* the first render and after a render that renewed refetch (renew).
UseEffectRuns(renew) == renew

\* The arguments a caller can pass: undefined is always the same value, an
\* options object is either a new one or the one passed at the last render.
PropsOK(o, fresh) ==
    /\ fresh => o # NoOptions
    /\ ~fresh => (o = NoOptions \/ (phase = "mounted" /\ o = options))

(***************************************************************************)
(* One run of the hook's body (a render of the component).                 *)
(***************************************************************************)
HookBody(q, o, fresh, en) ==
    LET sc     == IF IsFetch THEN StandaloneOf(o, fresh) ELSE NoClient
        make   == IsFetch /\ UseMemoStale(o, fresh) /\ o # NoOptions
        client == IF IsFetch THEN ResolveClient(sc) ELSE contextClient
        nd     == RefetchDeps(client, q, en)
        renew  == phase = "init" \/ nd # deps
    IN  /\ make => built < MaxClients
        /\ query' = q
        /\ options' = o
        /\ enabled' = en
        /\ built' = IF make THEN built + 1 ELSE built
        /\ standaloneClient' = sc
        /\ madeFrom' = IF IsFetch /\ UseMemoStale(o, fresh) THEN o ELSE madeFrom
        /\ UNCHANGED <<hook, contextClient, data, error, loading, status,
                       calls, lastSettled>>
        /\ UNCHANGED providerVars
        /\ IF ClientMissing(client)
           THEN /\ phase' = "crashed"
                /\ effect' = "none"
                /\ UNCHANGED <<deps, refetch, view>>
           ELSE /\ phase' = "mounted"
                /\ deps' = nd
                /\ refetch' = IF renew
                              THEN [client |-> client, query |-> q, enabled |-> en]
                              ELSE refetch
                /\ effect' = IF ~UseEffectRuns(renew) THEN "none"
                             ELSE IF phase = "init" THEN "mount" ELSE "deps"
                /\ view' = Result

\* The first render of the component.
Mount(q, o, en) ==
    /\ phase = "init"
    /\ HookBody(q, o, o # NoOptions, en)

\* A later render: the parent re-rendered (with the same or other arguments)
\* or a state cell changed.  Pending passive effects are flushed first.
Render(q, o, fresh, en) ==
    /\ phase = "mounted"
    /\ effect = "none"
    /\ PropsOK(o, fresh)
    /\ HookBody(q, o, fresh, en)

(***************************************************************************)
(* refetch, the effect, and the settling of client calls.                  *)
(***************************************************************************)
\* A client call: fetcher(client) of the refetch closure.  cause records what
\* started it: the effect of the mount ("mount"), the effect of a later
\* render ("deps"), or the caller ("manual").
NewCall(cause) ==
    [client |-> refetch.client, op |-> ClientOp(hook), arg |-> refetch.query,
     cause |-> cause]

\* A settling call that takes the calls made before it out of flight.
WithoutUpTo(i) == [k \in 1..(Len(calls) - i) |-> calls[k + i]]

\* calls without its i-th element: the others stay in flight.
Without(i) == [k \in 1..(Len(calls) - 1) |-> IF k < i THEN calls[k] ELSE calls[k + 1]]

\* How the call c ended: its outcome, and how the promise refetch() returned
\* ended.
Settled(c, how, r, p) == [st |-> how, res |-> r, promise |-> p, op |-> c.op]

\* refetch() of a disabled useCms* hook returns at once: its promise is
\* fulfilled and nothing was called.
Skipped ==
    [st |-> "skipped", res |-> Undefined, promise |-> "fulfilled", op |-> "none"]

\* The synchronous part of refetch(), up to the await.
RefetchBody(cause) ==
    IF RefetchSkips
    THEN /\ lastSettled' = Skipped
         /\ UNCHANGED <<calls, data, error, loading, status>>
    ELSE /\ Len(calls) < MaxInFlight
         /\ calls' = Append(calls, NewCall(cause))
         /\ SetState(RefetchStart)
         /\ UNCHANGED lastSettled

\* useEffect(() => { refetch(); }, [refetch]) and
\* useEffect(() => { if (!enabled) return; refetch(); }, [enabled, refetch]).
RunEffect ==
    /\ phase = "mounted"
    /\ effect # "none"
    /\ effect' = "none"
    /\ IF ~IsFetch /\ ~enabled
       THEN UNCHANGED <<calls, data, error, loading, status, lastSettled>>
       ELSE RefetchBody(effect)
    /\ UNCHANGED <<hook, contextClient, phase, query, options, enabled,
                   standaloneClient, madeFrom, built, deps, refetch, view>>
    /\ UNCHANGED providerVars

\* The caller invokes the refetch of the last render's result.
CallRefetch ==
    /\ phase = "mounted"
    /\ RefetchBody("manual")
    /\ UNCHANGED <<hook, contextClient, phase, query, options, enabled,
                   standaloneClient, madeFrom, built, deps, refetch, effect,
                   view>>
    /\ UNCHANGED providerVars

\* The client call i resolves with v: the continuation after the await.
Resolve(i, v) ==
    /\ calls' = Without(i)
    /\ lastSettled' = Settled(calls[i], "resolved", v, "fulfilled")
    /\ IF SettersApply
       THEN SetState(IF IsFetch THEN FetchThen(v) ELSE QueryThen(v))
       ELSE UNCHANGED <<data, error, loading, status>>
    /\ UNCHANGED <<hook, contextClient, phase, query, options, enabled,
                   standaloneClient, madeFrom, built, deps, refetch, effect, view>>
    /\ UNCHANGED providerVars

\* The client call i fails with e: the catch branch.
Reject(i, e) ==
    /\ calls' = Without(i)
    /\ lastSettled' = Settled(calls[i], "rejected", e, PromiseOnFailure)
    /\ IF SettersApply
       THEN SetState(IF IsFetch THEN FetchCatch(e) ELSE QueryCatch(e))
       ELSE UNCHANGED <<data, error, loading, status>>
    /\ UNCHANGED <<hook, contextClient, phase, query, options, enabled,
                   standaloneClient, madeFrom, built, deps, refetch, effect, view>>
    /\ UNCHANGED providerVars

\* The component instance is removed.
Unmount ==
    /\ phase = "mounted"
    /\ effect = "none"
    /\ phase' = "unmounted"
    /\ UNCHANGED <<hook, contextClient, query, options, enabled,
                   standaloneClient, madeFrom, built, deps, refetch, effect,
                   data, error, loading, status, view, calls, lastSettled>>
    /\ UNCHANGED providerVars

Next ==
    \/ \E q \in Args(hook), o \in OptionsOf(hook), en \in EnabledOf(hook) :
         Mount(q, o, en)
    \/ \E q \in Args(hook), o \in OptionsOf(hook), fresh \in BOOLEAN,
          en \in EnabledOf(hook) : Render(q, o, fresh, en)
    \/ RunEffect
    \/ CallRefetch
    \/ \E i \in 1..Len(calls), v \in Values : Resolve(i, v)
    \/ \E i \in 1..Len(calls), e \in Errors : Reject(i, e)
    \/ Unmount

Spec == Init /\ [][Next]_vars

(***************************************************************************)
(* The typed accessor hooks: a component calls one of useContent ..        *)
(* useEntry with an input and, optionally, an options object it keeps      *)
(* across renders.                                                         *)
(***************************************************************************)
InitTyped == InitOf(TypedHooks)

NextTyped ==
    \/ \E q \in Args(hook), o \in OptionsOf(hook) : Mount(q, o, TRUE)
    \/ \E q \in Args(hook) : Render(q, options, FALSE, TRUE)
    \/ RunEffect
    \/ CallRefetch
    \/ \E i \in 1..Len(calls), v \in Values : Resolve(i, v)
    \/ \E i \in 1..Len(calls), e \in Errors : Reject(i, e)
    \/ Unmount

SpecTyped == InitTyped /\ [][NextTyped]_vars

(***************************************************************************)
(* The hook under React's scheduling and a client whose calls all settle.  *)
(***************************************************************************)
\* React renders the component again, with the arguments of the last
\* render, after a state cell was set.
Rerender == Render(query, options, FALSE, enabled)

\* A client call in flight settles, one way or the other.
Settle ==
    \/ \E i \in 1..Len(calls), v \in Values : Resolve(i, v)
    \/ \E i \in 1..Len(calls), e \in Errors : Reject(i, e)

\* What the application does to the hook: it mounts the component, renders
\* it with another input or enabled flag (keeping the options object it
\* passed at the mount), calls refetch(), removes the component.
CallerStep ==
    \/ \E q \in Args(hook), o \in OptionsOf(hook), en \in EnabledOf(hook) :
         Mount(q, o, en)
    \/ \E q \in Args(hook), en \in EnabledOf(hook) :
         /\ q # query \/ en # enabled
         /\ Render(q, options, FALSE, en)
    \/ CallRefetch
    \/ Unmount

NextSettle ==
    \/ CallerStep
    \/ Rerender
    \/ RunEffect
    \/ Settle

\* Scheduled effects run, a set cell leads to a render, and every client
\* call settles.
FairSpec ==
    /\ Init
    /\ [][NextSettle]_vars
    /\ WF_vars(RunEffect)
    /\ WF_vars(Rerender)
    /\ WF_vars(Settle)

(***************************************************************************)
(* SleekCMSProvider.  v1 (lines 54-57) builds its client once, in a        *)
(* useState initializer.  v2 (lines 126-174) takes client, siteToken, env, *)
(* cache, mock and sync, prefetches a sync client in an effect and         *)
(* computes the published value in a useMemo.  The subtree below it is not *)
(* looked into here: output says whether the children were rendered and    *)
(* contextClient which value they were given.                              *)
(***************************************************************************)
InitProvider ==
    /\ provider \in {"v1", "v2"}
    /\ props = NoProps
    /\ syncClient = NoClient
    /\ isInitializing = FALSE
    /\ value = NoClient
    /\ valueDeps = <<>>
    /\ pEffect = FALSE
    /\ prefetches = <<>>
    /\ output = "none"
    /\ made = <<GivenClient>>
    /\ reconfigs = 0
    /\ lastPrefetch = NoPrefetch
    /\ contextClient = NoClient
    /\ built = 1
    /\ hook = "none"
    /\ phase = "init"
    /\ query = Undefined
    /\ options = NoOptions
    /\ enabled = TRUE
    /\ standaloneClient = NoClient
    /\ madeFrom = NoOptions
    /\ deps = <<>>
    /\ refetch = NoClosure
    /\ effect = "none"
    /\ data = Undefined
    /\ error = Undefined
    /\ loading = FALSE
    /\ status = "idle"
    /\ view = [loading |-> FALSE, status |-> "idle"]
    /\ calls = <<>>
    /\ lastSettled = NoCall

\* A Provider that starts every mode with isInitializing = false.
InitialInitializingOff(p) == FALSE

\* useState(sync || false)
InitialInitializing(p) == p.sync

\* if (sync && !client && siteToken) in the effect: the prefetch is wanted.
WantsPrefetch(p) == p.sync /\ p.client = NoClient /\ p.siteToken # Undefined

\* The value useMemo, up to its last step: "client", "syncClient", "null",
\* "throw" or "create".
ValueCase(p, sc, ini) ==
    IF p.client # NoClient THEN "client"
    ELSE IF p.sync /\ sc # NoClient THEN "syncClient"
    ELSE IF p.sync /\ ini THEN "null"
    ELSE IF p.siteToken = Undefined THEN "throw"
    ELSE "create"

\* A render without the early return: the children are always rendered.
OutputAlwaysChildren(p, ini) == "children"

\* if (sync && isInitializing) return null; otherwise the children.
OutputOf(p, ini) == IF p.sync /\ ini THEN "null" ELSE "children"

\* One render of the v2 Provider with props p.
RenderV2(p) ==
    LET first == output = "none"
        ini   == IF first THEN InitialInitializing(p) ELSE isInitializing
        nd    == <<p, syncClient, ini>>
        stale == first \/ nd # valueDeps
        case  == ValueCase(p, syncClient, ini)
        id    == Len(made) + 1
        v     == IF ~stale THEN value
                 ELSE CASE case = "client"     -> p.client
                        [] case = "syncClient" -> syncClient
                        [] case = "null"       -> NoClient
                        [] OTHER               -> id
    IN  /\ props' = p
        /\ reconfigs' = IF first \/ p = props THEN reconfigs ELSE reconfigs + 1
        /\ UNCHANGED <<provider, syncClient, prefetches, lastPrefetch>>
        /\ IF stale /\ case = "throw"
           THEN /\ output' = "threw"
                /\ contextClient' = NoClient
                /\ pEffect' = FALSE
                /\ UNCHANGED <<isInitializing, value, valueDeps, made, built>>
           ELSE /\ isInitializing' = ini
                /\ value' = v
                /\ valueDeps' = nd
                /\ made' = IF stale /\ case = "create"
                           THEN Append(made, [kind |-> "async", cfg |-> Config(p)])
                           ELSE made
                /\ built' = Len(made')
                /\ pEffect' = (first \/ p # props)
                /\ output' = OutputOf(p, ini)
                /\ contextClient' = IF OutputOf(p, ini) = "children" THEN v ELSE NoClient

\* One render of the v1 Provider: useState(() => createAsyncClient(options))
\* runs its initializer at the first render only.
RenderV1(p) ==
    LET first == output = "none"
        id    == Len(made) + 1
    IN  /\ props' = p
        /\ reconfigs' = IF first \/ p = props THEN reconfigs ELSE reconfigs + 1
        /\ value' = IF first THEN id ELSE value
        /\ made' = IF first
                   THEN Append(made, [kind |-> "async", cfg |-> Config(p)])
                   ELSE made
        /\ built' = Len(made')
        /\ output' = "children"
        /\ contextClient' = value'
        /\ UNCHANGED <<provider, syncClient, isInitializing, valueDeps, pEffect,
                       prefetches, lastPrefetch>>

\* The Provider renders: its first render, a re-render by its parent with the
\* same or other props, or a re-render after one of its cells changed.
ProviderRender(p) ==
    /\ output # "threw"
    /\ ~pEffect
    /\ p \in PropsOf(provider)
    /\ output = "none" \/ p = props \/ reconfigs < MaxReconfig
    /\ IF provider = "v1" THEN RenderV1(p) ELSE RenderV2(p)
    /\ UNCHANGED hookVars

\* useEffect(..., [sync, client, siteToken, env, cache, mock]) of the v2
\* Provider: it starts the prefetch.
ProviderEffect ==
    /\ pEffect
    /\ pEffect' = FALSE
    /\ IF WantsPrefetch(props)
       THEN /\ isInitializing' = TRUE
            /\ prefetches' = Append(prefetches, Config(props))
       ELSE UNCHANGED <<isInitializing, prefetches>>
    /\ UNCHANGED <<provider, props, syncClient, value, valueDeps, output, made,
                   reconfigs, lastPrefetch, contextClient, built>>
    /\ UNCHANGED hookVars

\* prefetches without its i-th element.
PrefetchesWithout(i) ==
    [k \in 1..(Len(prefetches) - 1) |->
        IF k < i THEN prefetches[k] ELSE prefetches[k + 1]]

\* createSyncClient(...) resolves: .then((c) => { setSyncClient(c);
\* setIsInitializing(false); }).
PrefetchResolve(i) ==
    /\ prefetches' = PrefetchesWithout(i)
    /\ made' = Append(made, [kind |-> "sync", cfg |-> prefetches[i]])
    /\ built' = Len(made')
    /\ lastPrefetch' = [st |-> "resolved", cfg |-> prefetches[i]]
    /\ IF output # "threw"
       THEN syncClient' = Len(made') /\ isInitializing' = FALSE
       ELSE UNCHANGED <<syncClient, isInitializing>>
    /\ UNCHANGED <<provider, props, value, valueDeps, pEffect, output, reconfigs,
                   contextClient>>
    /\ UNCHANGED hookVars

\* A catch branch that only logs: isInitializing is never cleared.
PrefetchCatchKeepsInitializing == isInitializing

\* What .catch leaves in isInitializing: setIsInitializing(false).
PrefetchCatch == FALSE

\* createSyncClient(...) fails: .catch((err) => { console.error(...);
\* setIsInitializing(false); }).
PrefetchReject(i) ==
    /\ prefetches' = PrefetchesWithout(i)
    /\ lastPrefetch' = [st |-> "rejected", cfg |-> prefetches[i]]
    /\ IF output # "threw"
       THEN isInitializing' = PrefetchCatch
       ELSE UNCHANGED isInitializing
    /\ UNCHANGED <<provider, props, syncClient, value, valueDeps, pEffect, output,
                   made, reconfigs, contextClient, built>>
    /\ UNCHANGED hookVars

NextProvider ==
    \/ \E p \in PropsOf(provider) : ProviderRender(p)
    \/ ProviderEffect
    \/ \E i \in 1..Len(prefetches) : PrefetchResolve(i)
    \/ \E i \in 1..Len(prefetches) : PrefetchReject(i)

SpecProvider == InitProvider /\ [][NextProvider]_vars

\* React renders a component again after one of its cells was set, and runs
\* a scheduled effect.
FairProvider ==
    /\ SpecProvider
    /\ WF_vars(ProviderRender(props))
    /\ WF_vars(ProviderEffect)

(***************************************************************************)
(* Vocabulary of the properties.                                           *)
(***************************************************************************)
\* The loading flag the state cells hold (what the next render will return).
StateLoading == IF IsFetch THEN loading ELSE status = "loading"

\* The hook fetches: useFetch always, a useCms* hook while enabled.
Active == IsFetch \/ enabled

\* The client a hook should use: the one built from its options if it was
\* given options, the Provider's otherwise.
EffectiveClient == IF options # NoOptions THEN standaloneClient ELSE contextClient

\* Steps: a client call was made; a client call settled; a client call failed.
CallAdded == Len(calls') > Len(calls)
CallSettled == Len(calls') < Len(calls)
CallFailed == CallSettled /\ lastSettled'.st = "rejected"
CallSucceeded == CallSettled /\ lastSettled'.st = "resolved"

\* The latest call made by a step that made one.
Added == calls'[Len(calls')]

\* The automatic call of the mount has not settled yet.
MountCallOpen ==
    \/ effect = "mount" /\ Active
    \/ \E i \in 1..Len(calls) : calls[i].cause = "mount"

MountCalls ==
    Cardinality({i \in 1..Len(calls) : calls[i].cause = "mount"})
        + (IF effect = "mount" THEN 1 ELSE 0)

(***************************************************************************)
(* C1.  Mounting a fetch hook causes exactly one automatic call to the     *)
(* client operation, and every render from the first one until that call   *)
(* settles reports loading.  (The first render returns the initial         *)
(* loading = false / status = "idle": the statement fails there.)          *)
(***************************************************************************)
C1_LoadingFromFirstRender ==
    /\ MountCalls <= 1
    /\ phase = "mounted" /\ MountCallOpen => view.loading

(***************************************************************************)
(* C2.  Once a client call has resolved and no call is outstanding, data   *)
(* is the resolved value and error is absent, whatever happened before.    *)
(* (useFetch never clears error; useAsyncQuery clears it only when a       *)
(* refetch starts.)                                                        *)
(***************************************************************************)
C2_SuccessClearsError ==
    phase = "mounted" /\ calls = <<>> /\ lastSettled.st = "resolved"
        => data = lastSettled.res /\ error = Undefined

(***************************************************************************)
(* C3.  When a client call fails, error becomes the failure value and data *)
(* is left as it was; data changes only when a call succeeds, to that      *)
(* call's value (so it is absent until the first success and the last      *)
(* successful value afterwards).                                           *)
(***************************************************************************)
C3_FailureKeepsData ==
    [][/\ phase = "mounted" /\ CallFailed
            => error' = lastSettled'.res /\ data' = data
       /\ data' # data
            => phase = "mounted" /\ CallSucceeded /\ data' = lastSettled'.res
      ]_vars

\* A call failed after another had succeeded: the data is still there.
C3_Witness ==
    /\ phase = "mounted"
    /\ lastSettled.st = "rejected"
    /\ error = lastSettled.res
    /\ data \in Values

(***************************************************************************)
(* C4.  In every state of a mounted hook, loading is true exactly when a   *)
(* refetch has been started and has not settled.  (With two overlapping    *)
(* refetches the first to settle switches loading off.)                    *)
(***************************************************************************)
C4_LoadingIffOutstanding ==
    phase = "mounted" => (StateLoading <=> calls # <<>>)

(***************************************************************************)
(* C5.  Re-rendering a hook with per-call options whose non-cache fields   *)
(* are the same (a new but equal object, or only the cache adapter         *)
(* changed) constructs no client and, the input being the same, triggers   *)
(* no automatic fetch.  (useMemo depends on the options object itself.)    *)
(***************************************************************************)
C5_ClientPerOptionsKey ==
    [][phase = "mounted" /\ effect = "none"
         /\ options # NoOptions /\ options' # NoOptions
         /\ options'.key = options.key
            => /\ built' = built
               /\ query' = query => effect' = "none"
      ]_vars

(***************************************************************************)
(* C6.  A render with a new input schedules the effect, which makes        *)
(* exactly one automatic call, with the new input, if the hook is enabled  *)
(* (useFetch always is); a render with the same input, client and enabled  *)
(* flag schedules nothing; and automatic calls come from the effect only,  *)
(* one per run.                                                            *)
(***************************************************************************)
C6_InputChangeRefetchesOnce ==
    [][/\ phase = "mounted" /\ phase' = "mounted" /\ query' # query
            => effect' = "deps"
       /\ effect = "deps" /\ effect' = "none" /\ Active
            => /\ Len(calls') = Len(calls) + 1
               /\ Added.cause = "deps"
               /\ Added.arg = query
               /\ Added.client = deps[1]
       /\ CallAdded /\ Added.cause # "manual"
            => effect # "none" /\ effect' = "none" /\ Added.cause = effect
       /\ phase = "mounted" /\ effect = "none" /\ phase' = "mounted"
          /\ query' = query /\ refetch'.client = refetch.client
          /\ enabled' = enabled
            => effect' = "none"
      ]_vars

\* C6 as stated, for every hook whatever its enabled flag: a new input
\* makes exactly one automatic call, and a render with the same input and
\* client makes none.  (A disabled useCms* hook makes no call for a new
\* input, and enabling it makes one for the same input.)
C6_AnyInputChangeRefetches ==
    [][/\ phase = "mounted" /\ phase' = "mounted" /\ query' # query
            => effect' = "deps"
       /\ effect = "deps" /\ effect' = "none"
            => /\ Len(calls') = Len(calls) + 1
               /\ Added.cause = "deps"
               /\ Added.arg = query
       /\ CallAdded /\ Added.cause # "manual"
            => effect # "none" /\ effect' = "none" /\ Added.cause = effect
       /\ phase = "mounted" /\ effect = "none" /\ phase' = "mounted"
          /\ query' = query /\ refetch'.client = refetch.client
          /\ Active'
            => effect' = "none"
      ]_vars

\* The input changed while the mount's call was in flight: the call for the
\* new input is in flight beside it.
C6_Witness ==
    /\ phase = "mounted"
    /\ \E i, j \in 1..Len(calls) :
         /\ calls[i].cause = "mount" /\ calls[i].arg # query
         /\ calls[j].cause = "deps" /\ calls[j].arg = query

(***************************************************************************)
(* C7.  A render of a hook with no Provider and no per-call options throws *)
(* the configuration error there and then: the render makes no client      *)
(* call, schedules no effect and touches no state cell, and at the first   *)
(* render nothing has been called and no loading state entered.            *)
(***************************************************************************)
C7_NoClientThrowsInRender ==
    [][(phase = "init" \/ phase = "mounted")
         /\ contextClient = NoClient /\ options' = NoOptions
            => /\ phase' = "crashed"
               /\ calls' = calls /\ Cur' = Cur /\ view' = view
               /\ effect' = "none"
               /\ phase = "init"
                    => calls' = <<>> /\ ~StateLoading' /\ ~view'.loading
      ]_vars

C7_Witness ==
    /\ phase = "crashed"
    /\ contextClient = NoClient
    /\ options = NoOptions
    /\ calls = <<>>
    /\ lastSettled = NoCall

(***************************************************************************)
(* C8.  useClient prefers the client built from the per-call options, then *)
(* the Provider's, and fails only with neither: a hook given options never *)
(* crashes, holds a standalone client built from those options that is not *)
(* the Provider's, and every call it makes goes through that client; a     *)
(* hook given none goes through the Provider's client.                     *)
(***************************************************************************)
C8_ResolutionOrder ==
    [][/\ phase' = "mounted"
            => /\ refetch'.client = EffectiveClient'
               /\ options' # NoOptions
                    => /\ standaloneClient' # NoClient
                       /\ standaloneClient' # contextClient
                       /\ madeFrom' = options'
       /\ (phase = "init" \/ phase = "mounted") /\ options' # NoOptions
            => phase' # "crashed"
       /\ CallAdded => Added.client = EffectiveClient
      ]_vars

\* Inside a Provider, with options: a call in flight through the standalone
\* client.
C8_Witness ==
    /\ phase = "mounted"
    /\ contextClient # NoClient
    /\ options # NoOptions
    /\ \E i \in 1..Len(calls) :
         calls[i].client = standaloneClient /\ calls[i].client # contextClient

(***************************************************************************)
(* C9.  A failure of the client call stays inside the hook: the promise    *)
(* refetch() returned is fulfilled, never rejected, the component keeps    *)
(* running, error holds the failure value and the loading flag is off.     *)
(***************************************************************************)
C9_FailureIsCaptured ==
    [][CallFailed
            => /\ lastSettled'.promise = "fulfilled"
               /\ phase' = phase
               /\ phase = "mounted"
                    => error' = lastSettled'.res /\ ~StateLoading'
      ]_vars

C9_Witness ==
    /\ phase = "mounted"
    /\ lastSettled.st = "rejected"
    /\ lastSettled.promise = "fulfilled"
    /\ error = lastSettled.res
    /\ ~StateLoading
    /\ ~view.loading
    /\ calls = <<>>

(***************************************************************************)
(* C10.  No automatic retry: a failing call makes no call and schedules no *)
(* effect; a call is made only by the caller's refetch() or by a scheduled *)
(* effect; and an effect is scheduled only by the mount or by a render in  *)
(* which the input, the client or the enabled flag changed.                *)
(***************************************************************************)
C10_NoAutomaticRetry ==
    [][/\ CallFailed
            => /\ Len(calls') = Len(calls) - 1
               /\ effect' = effect
               /\ refetch' = refetch
       /\ CallAdded
            => \/ Added.cause = "manual" /\ effect' = effect
               \/ effect # "none" /\ effect' = "none"
       /\ effect' # "none" /\ effect' # effect
            => \/ phase = "init"
               \/ query' # query
               \/ refetch'.client # refetch.client
               \/ enabled' # enabled
      ]_vars

\* C10 as stated: after a failure only refetch() or a change of the input or
\* of the client leads to a call.  (Re-enabling a useCms* hook does too.)
C10_OnlyRefetchInputOrClient ==
    [][/\ CallFailed
            => /\ Len(calls') = Len(calls) - 1
               /\ effect' = effect
       /\ lastSettled.st = "rejected" /\ CallAdded
            => \/ Added.cause = "manual" /\ effect' = effect
               \/ effect # "none" /\ effect' = "none"
       /\ lastSettled.st = "rejected" /\ effect' # "none" /\ effect' # effect
          /\ Active'
            => \/ query' # query
               \/ refetch'.client # refetch.client
      ]_vars

\* A call failed, the component rendered the failure, and nothing is in
\* flight or scheduled.
C10_Witness ==
    /\ phase = "mounted"
    /\ lastSettled.st = "rejected"
    /\ error = lastSettled.res
    /\ calls = <<>>
    /\ effect = "none"
    /\ ~StateLoading
    /\ view = Result

(***************************************************************************)
(* Vocabulary of the Provider's properties.                                *)
(***************************************************************************)
\* The Provider has rendered and its props are those of sync-prefetch mode.
InSyncMode == output # "none" /\ WantsPrefetch(props)

\* The props are still those of the first render.
PropsUnchanged == reconfigs = 0

\* The children are rendered with the prefetched sync client as context value.
PublishesSync ==
    /\ output = "children"
    /\ contextClient # NoClient
    /\ contextClient = syncClient
    /\ made[contextClient].kind = "sync"

\* The children are rendered with an asynchronous client built from the
\* Provider's current configuration as context value.
PublishesFallback ==
    /\ output = "children"
    /\ contextClient # NoClient
    /\ made[contextClient] = [kind |-> "async", cfg |-> Config(props)]

\* The prefetch that settled last failed, and none is in flight or about to
\* be started.
PrefetchFailed ==
    /\ lastPrefetch.st = "rejected"
    /\ prefetches = <<>>
    /\ ~pEffect

\* The hook's context value is the sync client of an initialized Provider.
UnderSyncProvider ==
    /\ provider = "v2"
    /\ props.sync
    /\ ~isInitializing
    /\ contextClient # NoClient
    /\ made[contextClient].kind = "sync"

(***************************************************************************)
(* C11.  A Provider configured by siteToken, not in sync mode, publishes   *)
(* the same client at every render and constructs no second one, whatever  *)
(* props change.  (The v2 Provider's useMemo depends on siteToken, env,    *)
(* cache and mock and builds a new client when one of them changes.)       *)
(***************************************************************************)
C11_OneClientPerProvider ==
    [][output = "children" /\ output' = "children"
         /\ ~props.sync /\ ~props'.sync
         /\ props.client = NoClient /\ props'.client = NoClient
            => contextClient' = contextClient /\ made' = made
      ]_vars

(***************************************************************************)
(* C12.  A Provider whose last render had neither client nor siteToken     *)
(* threw in that render.  (With sync = true the v2 Provider returns null   *)
(* instead, and stays that way.)                                           *)
(***************************************************************************)
C12_MissingConfigThrows ==
    output # "none" /\ props.client = NoClient /\ props.siteToken = Undefined
        => output = "threw"

(***************************************************************************)
(* C13.  A Provider mounted in sync-prefetch mode, its props unchanged,    *)
(* renders null and publishes nothing while its prefetch is scheduled or   *)
(* in flight, and once the prefetch has resolved it comes to render its    *)
(* children with the prefetched sync client as the context value.          *)
(***************************************************************************)
C13_SyncPrefetch ==
    /\ [](InSyncMode /\ PropsUnchanged /\ (pEffect \/ prefetches # <<>>)
            => output = "null" /\ contextClient = NoClient)
    /\ (InSyncMode /\ PropsUnchanged /\ syncClient # NoClient)
            ~> (~PropsUnchanged \/ PublishesSync)

\* C13 as stated, for every Provider whose props are those of sync-prefetch
\* mode: nothing is rendered while the prefetch is scheduled or in flight.
\* (A Provider that was mounted with sync = false and is then given
\* sync = true renders its children with a new asynchronous client first.)
C13_NothingWhilePrefetching ==
    InSyncMode /\ (pEffect \/ prefetches # <<>>) => output = "null"

C13_Witness ==
    /\ InSyncMode
    /\ PropsUnchanged
    /\ prefetches = <<>>
    /\ ~isInitializing
    /\ PublishesSync

(***************************************************************************)
(* C14.  No render of a useCms* hook below an initialized sync Provider    *)
(* returns isLoading = true or status = "loading".  (useAsyncQuery awaits  *)
(* the fetcher whatever the client is: it starts from "idle" with no data  *)
(* and passes through "loading".)                                          *)
(***************************************************************************)
C14_NoLoadingUnderSync ==
    phase = "mounted" /\ UnderSyncProvider
        => ~view.loading /\ view.status # "loading"

C16_RefetchClearsNothing ==
    [][/\ CallAdded
            => data' = data /\ error' = error
       /\ phase = "mounted" /\ CallSucceeded
            => data' = lastSettled'.res /\ error' = error
       /\ phase = "mounted" /\ CallFailed
            => error' = lastSettled'.res /\ data' = data
      ]_vars

(***************************************************************************)
(* C17.  refetch() called by the caller of an enabled hook while nothing   *)
(* is in flight makes exactly one call and turns loading on, with no       *)
(* effect involved; when that call settles the hook leaves loading, for    *)
(* success with the call's value in data, for error with its failure in    *)
(* error.                                                                  *)
(***************************************************************************)
C17_ManualRefetch ==
    [][/\ calls = <<>> /\ CallAdded /\ Added.cause = "manual"
            => /\ Len(calls') = 1
               /\ Added.arg = query
               /\ StateLoading'
               /\ effect' = effect
               /\ data' = data
       /\ phase = "mounted" /\ Len(calls) = 1 /\ calls[1].cause = "manual"
          /\ CallSettled
            => /\ calls' = <<>>
               /\ ~StateLoading'
               /\ effect' = effect
               /\ lastSettled'.st = "resolved"
                    => data' = lastSettled'.res /\ (IsFetch \/ status' = "success")
               /\ lastSettled'.st = "rejected"
                    => error' = lastSettled'.res /\ (IsFetch \/ status' = "error")
      ]_vars

\* C17 as stated, for every hook: a refetch() that finds nothing in flight
\* makes one call and turns loading on.  (refetch() of a disabled useCms*
\* hook returns at once.)
C17_RefetchAlwaysCalls ==
    [][calls = <<>>
         /\ \/ CallAdded /\ Added.cause = "manual"
            \/ lastSettled' # lastSettled /\ lastSettled'.st = "skipped"
            => Len(calls') = 1 /\ StateLoading'
      ]_vars

\* The last call failed, the caller called refetch(), and its call is the
\* only one in flight.
C17_Witness ==
    /\ phase = "mounted"
    /\ effect = "none"
    /\ lastSettled.st = "rejected"
    /\ Len(calls) = 1
    /\ calls[1].cause = "manual"
    /\ StateLoading

(***************************************************************************)
(* C18.  While a useCms* hook is disabled no step calls the client, and    *)
(* data, error and status change only when a call made earlier settles; a  *)
(* render that turns enabled on schedules the effect, whose run makes      *)
(* exactly one call.                                                       *)
(***************************************************************************)
C18_DisabledMakesNoCall ==
    [][/\ phase = "mounted" /\ ~Active /\ ~Active'
            => /\ ~CallAdded
               /\ Cur' = Cur \/ CallSettled
       /\ phase = "mounted" /\ phase' = "mounted" /\ ~Active /\ Active'
            => effect' = "deps" /\ ~CallAdded
       /\ effect = "deps" /\ effect' = "none" /\ Active
            => Len(calls') = Len(calls) + 1 /\ Added.cause = "deps"
       /\ calls = <<>> /\ ~Active /\ ~Active'
            => status' = status
      ]_vars

\* C18 as stated: while the hook is disabled data, error and status do not
\* change at all.  (A call made while the hook was enabled settles into
\* them.)
C18_DisabledFreezesState ==
    [][phase = "mounted" /\ ~Active /\ ~Active'
            => ~CallAdded /\ Cur' = Cur
      ]_vars

\* A hook that has always been disabled: its effect ran, refetch() was
\* called, and it is still idle with nothing called.
C18_Witness ==
    /\ phase = "mounted"
    /\ ~Active
    /\ effect = "none"
    /\ lastSettled.st = "skipped"
    /\ status = "idle"
    /\ data = Undefined
    /\ calls = <<>>

(***************************************************************************)
(* C19.  Every call a typed accessor hook makes is one call of the client  *)
(* operation it is bound to, with the hook's current input, and the value  *)
(* that call resolves with is the data the hook exposes.                   *)
(***************************************************************************)
\* The binding as the contract lists it.
BoundOp ==
    [h \in TypedHooks |->
        CASE h = "useContent" -> "getContent"
          [] h = "usePages"   -> "getPages"
          [] h = "usePage"    -> "getPage"
          [] h = "useSlugs"   -> "getSlugs"
          [] h = "useImage"   -> "getImage"
          [] h = "useList"    -> "getList"
          [] h = "useEntry"   -> "getEntry"]

C19_TypedHookBinding ==
    [][/\ CallAdded
            => /\ Len(calls') = Len(calls) + 1
               /\ Added.op = BoundOp[hook]
               /\ Added.arg = query
       /\ CallSettled
            => lastSettled'.op = BoundOp[hook]
       /\ phase = "mounted" /\ CallSucceeded
            => data' = lastSettled'.res
       /\ data' # data
            => CallSucceeded
      ]_vars

\* usePage("/blog") has resolved: getPage was called and its value is the
\* data.
C19_Witness ==
    /\ hook = "usePage"
    /\ phase = "mounted"
    /\ query = "/blog"
    /\ calls = <<>>
    /\ lastSettled.st = "resolved"
    /\ lastSettled.op = "getPage"
    /\ data = lastSettled.res

(***************************************************************************)
(* C20.  Calls of one hook overlap freely: a refetch started while another *)
(* is in flight adds its call and leaves the others running, a settling    *)
(* call takes only itself out of flight, and any call that resolves writes *)
(* its value to data, wherever it stands in the order the calls were made. *)
(***************************************************************************)
C20_LastCompletionWins ==
    [][/\ CallAdded
            => /\ Len(calls') = Len(calls) + 1
               /\ SubSeq(calls', 1, Len(calls)) = calls
       /\ CallSettled
            => /\ Len(calls') = Len(calls) - 1
               /\ \A k \in 1..Len(calls') : \E j \in 1..Len(calls) : calls'[k] = calls[j]
       /\ phase = "mounted" /\ CallSucceeded
            => data' = lastSettled'.res
      ]_vars

\* The call of the mount, made for an input that is no longer the hook's, is
\* still in flight after another call has resolved into data.
C20_Witness ==
    /\ phase = "mounted"
    /\ Len(calls) = 1
    /\ calls[1].cause = "mount"
    /\ calls[1].arg # query
    /\ lastSettled.st = "resolved"
    /\ data = lastSettled.res

C22_StatusErrorConsistent ==
    [][~IsFetch /\ phase' = "mounted"
            => /\ status' = "success" => error' = Undefined
               /\ status' = "error" => error' \in Errors
               /\ view'.loading = (view'.status = "loading")
               /\ status # "idle" => status' # "idle"
      ]_vars

C24_ChildrenGetAClient ==
    output = "children"
        => /\ contextClient \in 1..Len(made)
           /\ contextClient = value
           /\ ~ClientMissing(contextClient)

\* The children are rendered in sync mode while a prefetch is in flight.
C24_Witness ==
    /\ provider = "v2"
    /\ output = "children"
    /\ props.sync
    /\ prefetches # <<>>
    /\ isInitializing
    /\ contextClient # NoClient

(***************************************************************************)
(* C25.  In sync-prefetch mode, once the Provider has rendered the current *)
(* props and cells: with no prefetch outstanding, a sync client it         *)
(* publishes was built from the current configuration; and while a         *)
(* prefetch is outstanding it publishes no sync client of another          *)
(* configuration.  (The effect cancels nothing: of two prefetches the one  *)
(* started first may resolve last, and its client replaces the newer one;  *)
(* or it resolves first and is published while the newer one is in         *)
(* flight.)                                                                *)
(***************************************************************************)
C25_SyncClientIsCurrent ==
    InSyncMode /\ ~pEffect /\ valueDeps = <<props, syncClient, isInitializing>>
      /\ output = "children" /\ contextClient # NoClient
      /\ made[contextClient].kind = "sync"
        => made[contextClient].cfg = Config(props)

====
